---- MODULE Spec2Model ----
(***************************************************************************)
(* GenerateTopographicZoneWeights.process                                  *)
(* (lib/improver/generate_ancillaries/generate_topographic_zone_weights.py)*)
(*                                                                         *)
(* Numbers.  Elevations and band bounds are integers.  A midpoint is kept  *)
(* as a Mid record holding twice its value, so that the mean of two        *)
(* integer bounds is exact.  A weight w is kept as the integer             *)
(* w * WeightScale; WeightScale is twice a common multiple of every band   *)
(* width, so every interpolated weight and every residual 1 - w is exact.  *)
(* The threshold units are taken equal to the orography units, so that     *)
(* convert_units (line 210) leaves the bounds as given.                    *)
(* Band indices are 0-based as in the source.                              *)
(*                                                                         *)
(* Inputs.  Spec calls process with every list of up to MaxBands bands     *)
(* with lower < upper given in ascending order, overlapping or gapped or   *)
(* contiguous, on grids of two cells with elevations from one below the    *)
(* lowest possible bound to one above the highest.  SpecDisjoint is the    *)
(* same program called with bands that do not overlap.                     *)
(***************************************************************************)
EXTENDS Integers, Sequences, FiniteSets, TLC

\* ---- bounds of the model ------------------------------------------------
MaxBound == 4        \* band bounds are drawn from 0..MaxBound
MaxBands == 3        \* at most this many bands

RECURSIVE Lcm(_)
Gcd(a, b) == CHOOSE g \in 1..a : a % g = 0 /\ b % g = 0
                 /\ \A h \in 1..a : (a % h = 0 /\ b % h = 0) => h <= g
Lcm(n) == IF n <= 1 THEN 1 ELSE (Lcm(n - 1) * n) \div Gcd(n, Lcm(n - 1))
WeightScale == 2 * Lcm(MaxBound)
One == WeightScale
Half == WeightScale \div 2

\* NaN and None are the empty tuple: an elevation v is held as <<v>> in the
\* working array orography_band, whose non-member cells are NaN
NaN == <<>>
None == <<>>

Elevations == (0 - 1)..(MaxBound + 1)
Bands == {<<lo, hi>> : lo \in 0..MaxBound, hi \in 0..MaxBound} \ 
           {b \in (0..MaxBound) \X (0..MaxBound) : b[1] >= b[2]}
\* ascending order: each band starts and ends above the band before it;
\* consecutive bands may still overlap or leave a gap
Ascending(f) == \A i \in DOMAIN f : \A j \in DOMAIN f :
                   i < j => (f[i][1] < f[j][1] /\ f[i][2] < f[j][2])
BandLists == UNION {{f \in [0..(n - 1) -> Bands] : Ascending(f)} : n \in 1..MaxBands}

Shapes == {<<2>>, <<1, 2>>, <<1, 1, 2>>}
LandMasks == {[c \in (1..1) \X (1..2) |-> IF c = <<1, 1>> THEN 0 ELSE 1]}
Cells(shape) == IF Len(shape) = 1 THEN {<<x>> : x \in 1..shape[1]}
                ELSE IF Len(shape) = 2 THEN (1..shape[1]) \X (1..shape[2])
                ELSE (1..shape[1]) \X (1..shape[2]) \X (1..shape[3])

VARIABLES orography, thresholds_dict, landmask,
          pc, raised, warned,
          topographic_zone_weights, bands, midpoints, band_number,
          result, writers

vars == <<orography, thresholds_dict, landmask, pc, raised, warned,
          topographic_zone_weights, bands, midpoints, band_number,
          result, writers>>

inputs == <<orography, thresholds_dict, landmask>>

\* ---- pure helpers -------------------------------------------------------
Mid(band) == [twice |-> band[1] + band[2]]
Below_OrAt(v, m) == v # NaN /\ 2 * v[1] <= m.twice
Below(v, m) == v # NaN /\ 2 * v[1] < m.twice
Above(v, m) == v # NaN /\ 2 * v[1] > m.twice

MaxOf(S) == CHOOSE m \in S : \A s \in S : s <= m
MinOf(S) == CHOOSE m \in S : \A s \in S : m <= s
Values(f) == {f[c] : c \in DOMAIN f}
BoundsOf(bs) == UNION {{bs[b][1], bs[b][2]} : b \in DOMAIN bs}

Is2D_AtLeast(shape) == Len(shape) >= 2
Is2D(shape) == Len(shape) = 2

InBand(e, band) == e > band[1] /\ e <= band[2]
OrographyBand(data, band) ==
    [c \in DOMAIN data |-> IF InBand(data[c], band) THEN <<data[c]>> ELSE NaN]

Interp_Steep(v, band) ==
    LET lo == band[1]
        hi == band[2]
        e == v[1]
    IN  IF v = NaN THEN NaN
        ELSE IF e <= lo THEN Half
        ELSE IF e >= hi THEN Half
        ELSE IF 2 * e <= lo + hi
             THEN Half + (2 * WeightScale * (e - lo)) \div (hi - lo)
             ELSE One - (Half * (2 * e - lo - hi)) \div (hi - lo)
Interp_Swapped(v, band) ==
    LET lo == band[1]
        hi == band[2]
        e == v[1]
    IN  IF v = NaN THEN NaN
        ELSE IF e <= lo THEN One
        ELSE IF e >= hi THEN One
        ELSE IF 2 * e <= lo + hi
             THEN One - (WeightScale * (e - lo)) \div (hi - lo)
             ELSE Half + (Half * (2 * e - lo - hi)) \div (hi - lo)
Interp(v, band) ==
    LET lo == band[1]
        hi == band[2]
        e == v[1]
    IN  IF v = NaN THEN NaN
        ELSE IF e <= lo THEN Half
        ELSE IF e >= hi THEN Half
        ELSE IF 2 * e <= lo + hi
             THEN Half + (WeightScale * (e - lo)) \div (hi - lo)
             ELSE One - (Half * (2 * e - lo - hi)) \div (hi - lo)
calculate_weights(points, band) ==
    [c \in DOMAIN points |-> Interp(points[c], band)]

\* numpy index assignment a[band, mask_y, mask_x] = values; writes is a
\* function from the assigned <<band, cell>> indices to the assigned values
Assign(tzw, writes) ==
    [b \in DOMAIN tzw |-> [c \in DOMAIN tzw[b] |->
        IF <<b, c>> \in DOMAIN writes THEN writes[<<b, c>>] ELSE tzw[b][c]]]

OwnBandWrites_WholeSlice(orog_band, weights, b) ==
    [k \in {b} \X DOMAIN orog_band |->
        IF orog_band[k[2]] # NaN THEN weights[k[2]] ELSE 0]
OwnBandWrites(orog_band, weights, b) ==
    LET mask == {c \in DOMAIN orog_band : orog_band[c] # NaN}
    IN  [k \in {b} \X mask |-> weights[k[2]]]

LowerAdjacentWrites_Wrap(tzw, orog_band, midpoint, b) ==
    LET weights == tzw[b]
        mask == {c \in DOMAIN orog_band : Below(orog_band[c], midpoint)}
        last == Cardinality(DOMAIN tzw) - 1
    IN  [k \in {IF b = 0 THEN last ELSE b - 1} \X mask |-> One - weights[k[2]]]
LowerAdjacentWrites(tzw, orog_band, midpoint, b) ==
    LET weights == tzw[b]
        mask == {c \in DOMAIN orog_band : Below(orog_band[c], midpoint)}
    IN  IF b = 0
        THEN [k \in {b} \X mask |-> One]
        ELSE [k \in {b - 1} \X mask |-> One - weights[k[2]]]
add_weight_to_lower_adjacent_band(tzw, orog_band, midpoint, b) ==
    Assign(tzw, LowerAdjacentWrites(tzw, orog_band, midpoint, b))

UpperAdjacentWrites_OffByOne(tzw, orog_band, midpoint, b, max_band_number) ==
    LET weights == tzw[b]
        mask == {c \in DOMAIN orog_band : Above(orog_band[c], midpoint)}
    IN  IF b >= max_band_number - 1
        THEN [k \in {b} \X mask |-> One]
        ELSE [k \in {b + 1} \X mask |-> One - weights[k[2]]]
UpperAdjacentWrites_RawOrography(tzw, orog_band, midpoint, b, max_band_number) ==
    LET weights == tzw[b]
        mask == {c \in DOMAIN orog_band : Above(<<orography.data[c]>>, midpoint)}
    IN  IF b = max_band_number
        THEN [k \in {b} \X mask |-> One]
        ELSE [k \in {b + 1} \X mask |-> One - weights[k[2]]]
UpperAdjacentWrites(tzw, orog_band, midpoint, b, max_band_number) ==
    LET weights == tzw[b]
        mask == {c \in DOMAIN orog_band : Above(orog_band[c], midpoint)}
    IN  IF b = max_band_number
        THEN [k \in {b} \X mask |-> One]
        ELSE [k \in {b + 1} \X mask |-> One - weights[k[2]]]
add_weight_to_upper_adjacent_band(tzw, orog_band, midpoint, b, max_band_number) ==
    Assign(tzw, UpperAdjacentWrites(tzw, orog_band, midpoint, b, max_band_number))

sea_mask(mask, slice) ==
    [c \in DOMAIN slice |-> IF mask[c] = 0 THEN 0 ELSE slice[c]]

\* history: the band iterations that have assigned each cell of the volume
Record(written) ==
    [b \in DOMAIN writers |-> [c \in DOMAIN writers[b] |->
        IF <<b, c>> \in written
        THEN writers[b][c] \cup {band_number} ELSE writers[b][c]]]

\* ---- the state machine --------------------------------------------------
Init ==
    /\ orography \in UNION {{[shape |-> s, data |-> d] :
                                d \in [Cells(s) -> Elevations]} : s \in Shapes}
    /\ thresholds_dict \in [bounds : BandLists, units : {"m"}]
    /\ landmask \in {None} \cup LandMasks
    /\ pc = "check_dims"
    /\ raised = "None"
    /\ warned = {}
    /\ topographic_zone_weights = None
    /\ bands = None
    /\ midpoints = None
    /\ band_number = 0
    /\ result = None
    /\ writers = None

\* lines 185-189
CheckDims ==
    /\ pc = "check_dims"
    /\ IF ~Is2D(orography.shape)
       THEN /\ raised' = "InvalidCubeError"
            /\ pc' = "raised"
       ELSE /\ raised' = raised
            /\ pc' = "create"
    /\ UNCHANGED <<inputs, warned, topographic_zone_weights, bands, midpoints,
                   band_number, result, writers>>

\* lines 192-217
CreateVolume ==
    /\ pc = "create"
    /\ bands' = thresholds_dict.bounds
    /\ midpoints' = [b \in DOMAIN thresholds_dict.bounds |->
                        Mid(thresholds_dict.bounds[b])]
    /\ topographic_zone_weights' =
          [b \in DOMAIN thresholds_dict.bounds |->
              [c \in Cells(orography.shape) |-> 0]]
    /\ writers' = [b \in DOMAIN thresholds_dict.bounds |->
                      [c \in Cells(orography.shape) |-> {}]]
    /\ pc' = "warn"
    /\ UNCHANGED <<inputs, raised, warned, band_number, result>>

\* lines 221-231
MaxWarning_OrEqual(data, bs) == MaxOf(Values(data)) >= MaxOf(BoundsOf(bs))
MaxWarning(data, bs) == MaxOf(Values(data)) > MaxOf(BoundsOf(bs))
MinWarning(data, bs) == MinOf(Values(data)) < MinOf(BoundsOf(bs))
RangeWarnings ==
    /\ pc = "warn"
    /\ warned' = (IF MaxWarning(orography.data, bands) THEN {"max"} ELSE {})
                 \cup (IF MinWarning(orography.data, bands) THEN {"min"} ELSE {})
    /\ band_number' = 0
    /\ pc' = "own"
    /\ UNCHANGED <<inputs, raised, topographic_zone_weights, bands, midpoints,
                   result, writers>>

\* lines 238-249
OwnWeights ==
    /\ pc = "own"
    /\ LET band == bands[band_number]
           orography_band == OrographyBand(orography.data, band)
           weights == calculate_weights(orography_band, band)
           writes == OwnBandWrites(orography_band, weights, band_number)
       IN  /\ topographic_zone_weights' = Assign(topographic_zone_weights, writes)
           /\ writers' = Record(DOMAIN writes)
    /\ pc' = "lower"
    /\ UNCHANGED <<inputs, raised, warned, bands, midpoints, band_number, result>>

\* lines 253-256
LowerAdjacency ==
    /\ pc = "lower"
    /\ LET orography_band == OrographyBand(orography.data, bands[band_number])
       IN  /\ topographic_zone_weights' =
                 add_weight_to_lower_adjacent_band(
                     topographic_zone_weights, orography_band,
                     midpoints[band_number], band_number)
           /\ writers' = Record(DOMAIN LowerAdjacentWrites(
                     topographic_zone_weights, orography_band,
                     midpoints[band_number], band_number))
    /\ pc' = "upper"
    /\ UNCHANGED <<inputs, raised, warned, bands, midpoints, band_number, result>>

\* lines 260-264, and the loop header of line 236
NumBands == Cardinality(DOMAIN bands)
UpperAdjacency ==
    /\ pc = "upper"
    /\ LET orography_band == OrographyBand(orography.data, bands[band_number])
       IN  /\ topographic_zone_weights' =
                 add_weight_to_upper_adjacent_band(
                     topographic_zone_weights, orography_band,
                     midpoints[band_number], band_number, NumBands - 1)
           /\ writers' = Record(DOMAIN UpperAdjacentWrites(
                     topographic_zone_weights, orography_band,
                     midpoints[band_number], band_number, NumBands - 1))
    /\ IF band_number < NumBands - 1
       THEN /\ band_number' = band_number + 1
            /\ pc' = "own"
       ELSE /\ band_number' = band_number
            /\ pc' = "finalise"
    /\ UNCHANGED <<inputs, raised, warned, bands, midpoints, result>>

\* lines 267-280
Finalise ==
    /\ pc = "finalise"
    /\ result' = [name |-> "topographic_zone_weights",
                  units |-> "1",
                  data |-> [b \in DOMAIN topographic_zone_weights |->
                              IF landmask # None
                              THEN sea_mask(landmask, topographic_zone_weights[b])
                              ELSE topographic_zone_weights[b]]]
    /\ pc' = "returned"
    /\ UNCHANGED <<inputs, raised, warned, topographic_zone_weights, bands,
                   midpoints, band_number, writers>>

Next == \/ CheckDims
        \/ CreateVolume
        \/ RangeWarnings
        \/ OwnWeights
        \/ LowerAdjacency
        \/ UpperAdjacency
        \/ Finalise

Spec == Init /\ [][Next]_vars


\* One whole iteration of the loop body (lines 236-264) for band b, and the
\* loop run over the band indices in the order given by a sequence
BandIteration(tzw, b) ==
    LET band == bands[b]
        orography_band == OrographyBand(orography.data, band)
        weights == calculate_weights(orography_band, band)
        own == Assign(tzw, OwnBandWrites(orography_band, weights, b))
        low == add_weight_to_lower_adjacent_band(own, orography_band,
                                                 midpoints[b], b)
    IN  add_weight_to_upper_adjacent_band(low, orography_band, midpoints[b], b,
                                          NumBands - 1)
RECURSIVE RunInOrder(_, _)
RunInOrder(tzw, order) ==
    IF order = <<>> THEN tzw
    ELSE RunInOrder(BandIteration(tzw, Head(order)), Tail(order))

\* The same program, called with bands that satisfy the input assumption of
\* the data model: no two bands overlap (gaps are allowed)
Disjoint(bs) == \A i \in DOMAIN bs : \A j \in DOMAIN bs :
                   i < j => bs[i][2] <= bs[j][1]
InitDisjoint == Init /\ Disjoint(thresholds_dict.bounds)
SpecDisjoint == InitDisjoint /\ [][Next]_vars

\* ---- vocabulary of the properties ---------------------------------------
Grid == DOMAIN orography.data
Elev(c) == orography.data[c]
W(b, c) == topographic_zone_weights[b][c]
Lower(b) == bands[b][1]
Upper(b) == bands[b][2]
Top == Cardinality(DOMAIN bands) - 1
Member(c, b) == Lower(b) < Elev(c) /\ Elev(c) <= Upper(b)
Interior(c, b) == Lower(b) < Elev(c) /\ Elev(c) < Upper(b)
AtMidpoint(c, b) == 2 * Elev(c) = Lower(b) + Upper(b)
BelowMidpoint(c, b) == 2 * Elev(c) < Lower(b) + Upper(b)
AboveMidpoint(c, b) == 2 * Elev(c) > Lower(b) + Upper(b)
Created == topographic_zone_weights # None
LoopDone == pc \in {"finalise", "returned"}
RECURSIVE SumTo(_, _)
SumTo(b, c) == IF b < 0 THEN 0 ELSE W(b, c) + SumTo(b - 1, c)
ColumnSum(c) == SumTo(Top, c)
Contiguous == \A b \in DOMAIN bands : b < Top => Upper(b) = Lower(b + 1)
InOverallRange(c) == Lower(0) <= Elev(c) /\ Elev(c) <= Upper(Top)

TypeOK == pc \in {"check_dims", "create", "warn", "own", "lower", "upper",
                  "finalise", "returned", "raised"}

\* C1: for ascending contiguous bands, once the band loop has run, every grid
\* point with lowest lower bound <= elevation <= highest upper bound has
\* weights that sum to exactly 1 across the band slices
C1_ColumnSumsToOne ==
    (LoopDone /\ Contiguous) =>
        \A c \in Grid : InOverallRange(c) => ColumnSum(c) = One

\* C2: an orography that is not 2-dimensional ends in InvalidCubeError before
\* any other step (no volume, no band processed, no warning, no result); a
\* 2-dimensional orography never raises
C2_DimensionCheck ==
    /\ Len(orography.shape) # 2 =>
          /\ pc \in {"check_dims", "raised"}
          /\ pc = "raised" => raised = "InvalidCubeError"
          /\ topographic_zone_weights = None
          /\ bands = None
          /\ writers = None
          /\ warned = {}
          /\ result = None
    /\ Len(orography.shape) = 2 => (raised = "None" /\ pc # "raised")
C2_Witness == pc = "raised" /\ Len(orography.shape) = 3

\* C3 as stated: in every band, the lowest and highest included, a point
\* strictly inside the band ends with a weight in (0.5, 1.0] that is 1.0
\* only at the midpoint
C3_InteriorOnlyMidpointIsOne ==
    LoopDone =>
        \A b \in DOMAIN bands : \A c \in Grid :
            Interior(c, b) =>
                /\ Half < W(b, c)
                /\ W(b, c) <= One
                /\ W(b, c) = One => AtMidpoint(c, b)

\* C3 amended: a point strictly inside band b ends with a weight in
\* (0.5, 1.0]; the weight is 1.0 exactly at the midpoint, below the midpoint
\* of the lowest band and above the midpoint of the highest band
C3_InteriorWeight ==
    LoopDone =>
        \A b \in DOMAIN bands : \A c \in Grid :
            Interior(c, b) =>
                /\ Half < W(b, c)
                /\ W(b, c) <= One
                /\ W(b, c) = One <=>
                      \/ AtMidpoint(c, b)
                      \/ b = 0 /\ BelowMidpoint(c, b)
                      \/ b = Top /\ AboveMidpoint(c, b)
C3_Witness ==
    /\ LoopDone
    /\ 0 < Top
    /\ \E c \in Grid : /\ Interior(c, 0) /\ AboveMidpoint(c, 0)
                       /\ Half < W(0, c) /\ W(0, c) < One
    /\ \E c \in Grid : /\ Interior(c, 0) /\ BelowMidpoint(c, 0)
                       /\ W(0, c) = One

\* C4: two consecutive bands sharing a bound: a point whose elevation is the
\* shared bound ends with weight 0.5 in each of the two bands
C4_SharedBound ==
    LoopDone =>
        \A b \in DOMAIN bands : \A c \in Grid :
            (b < Top /\ Upper(b) = Lower(b + 1) /\ Elev(c) = Upper(b)) =>
                (W(b, c) = Half /\ W(b + 1, c) = Half)
C4_Witness ==
    /\ LoopDone
    /\ \E b \in DOMAIN bands : \E c \in Grid :
          /\ b < Top /\ Upper(b) = Lower(b + 1) /\ Elev(c) = Upper(b)
          /\ W(b, c) + W(b + 1, c) = One

\* C5: a member point of the lowest band below its midpoint, or of the
\* highest band above its midpoint, ends with weight exactly 1.0 in that
\* band, and no residual is written to any other slice or outside 0..N-1
C5_EdgeClamp ==
    LoopDone =>
        /\ DOMAIN topographic_zone_weights = DOMAIN bands
        /\ \A c \in Grid :
              /\ (Member(c, 0) /\ BelowMidpoint(c, 0)) =>
                    /\ W(0, c) = One
                    /\ \A k \in DOMAIN bands : k # 0 => W(k, c) = 0
              /\ (Member(c, Top) /\ AboveMidpoint(c, Top)) =>
                    /\ W(Top, c) = One
                    /\ \A k \in DOMAIN bands : k # Top => W(k, c) = 0
C5_Witness ==
    /\ LoopDone
    /\ Top >= 1
    /\ \E c \in Grid : Member(c, 0) /\ BelowMidpoint(c, 0) /\ W(0, c) = One
    /\ \E c \in Grid : Member(c, Top) /\ AboveMidpoint(c, Top) /\ W(Top, c) = One

\* C6: a point exactly at the midpoint of band b is assigned by neither
\* adjacency rule: it ends with 1.0 in band b and 0.0 in every other band
C6_Midpoint ==
    LoopDone =>
        \A b \in DOMAIN bands : \A c \in Grid :
            AtMidpoint(c, b) =>
                /\ W(b, c) = One
                /\ writers[b][c] = {b}
                /\ \A k \in DOMAIN bands :
                      k # b => (W(k, c) = 0 /\ writers[k][c] = {})
C6_Witness ==
    /\ LoopDone
    /\ \E b \in DOMAIN bands : \E c \in Grid :
          0 < b /\ b < Top /\ AtMidpoint(c, b) /\ W(b, c) = One

\* C7: a range warning is emitted exactly when some elevation is above the
\* highest band's upper bound (below the lowest band's lower bound); process
\* does not fail and returns a complete volume; an out-of-range point keeps
\* weight 0 in every band slice
OutOfRangeHigh(c) == Elev(c) > Upper(Top)
OutOfRangeLow(c) == Elev(c) < Lower(0)
C7_RangeWarning ==
    /\ pc \in {"own", "lower", "upper", "finalise", "returned"} =>
          /\ ("max" \in warned) <=> (\E c \in Grid : OutOfRangeHigh(c))
          /\ ("min" \in warned) <=> (\E c \in Grid : OutOfRangeLow(c))
          /\ raised = "None"
    /\ Created =>
          \A c \in Grid : (OutOfRangeHigh(c) \/ OutOfRangeLow(c)) =>
              \A b \in DOMAIN bands : W(b, c) = 0
    /\ pc = "returned" =>
          /\ DOMAIN result.data = DOMAIN bands
          /\ \A b \in DOMAIN bands : DOMAIN result.data[b] = Grid
C7_Witness ==
    /\ pc = "returned"
    /\ warned = {"max"}
    /\ \E c \in Grid : OutOfRangeHigh(c)
    /\ \E c \in Grid : \E b \in DOMAIN bands : result.data[b][c] > 0

\* C8: the volume is created all zero, and after every write of the band
\* loop every cell is in [0, 1], for any bands with lower < upper
C8_WeightsInUnitInterval ==
    Created =>
        /\ pc = "warn" =>
              \A b \in DOMAIN bands : \A c \in Grid : W(b, c) = 0
        /\ \A b \in DOMAIN bands : \A c \in Grid : 0 <= W(b, c) /\ W(b, c) <= One
C8_Witness ==
    /\ pc = "upper"
    /\ ~Disjoint(bands)
    /\ \E b \in DOMAIN bands : \E c \in Grid :
          /\ Cardinality(writers[b][c]) >= 2
          /\ 0 < W(b, c) /\ W(b, c) < Half

\* C9: the iteration for band b changes cells only at member points of band
\* b and only in slices b-1, b and b+1; the elevation grid is never modified
C9_Frame ==
    [][/\ orography' = orography
       /\ pc \in {"own", "lower", "upper"} =>
             /\ DOMAIN topographic_zone_weights' = DOMAIN topographic_zone_weights
             /\ \A b \in DOMAIN bands : \A c \in Grid :
                   topographic_zone_weights'[b][c] # topographic_zone_weights[b][c]
                      => /\ Member(c, band_number)
                         /\ b \in {band_number - 1, band_number, band_number + 1}]_vars
C9_Witness ==
    /\ pc = "finalise"
    /\ Top = 2
    /\ \E c \in Grid : W(0, c) > 0 /\ W(1, c) > 0 /\ W(2, c) = 0
    /\ \E c \in Grid : W(0, c) = 0 /\ W(1, c) > 0 /\ W(2, c) > 0

\* C10: when each grid point is a member of at most one band, no cell is
\* assigned during the iterations of two different bands, and running the
\* band iterations in any order gives the volume the ascending loop gives
AtMostOneBand == \A c \in Grid :
                    Cardinality({b \in DOMAIN bands : Member(c, b)}) <= 1
Orders == {o \in [1..(Top + 1) -> DOMAIN bands] :
              \A i \in DOMAIN o : \A j \in DOMAIN o : i # j => o[i] # o[j]}
ZeroVolume == [b \in DOMAIN bands |-> [c \in Grid |-> 0]]
C10_OrderIndependent ==
    (LoopDone /\ AtMostOneBand) =>
        /\ \A b \in DOMAIN bands : \A c \in Grid :
              Cardinality(writers[b][c]) <= 1
        /\ \A o \in Orders :
              RunInOrder(ZeroVolume, o) = topographic_zone_weights
C10_Witness ==
    /\ LoopDone
    /\ AtMostOneBand
    /\ Top >= 1
    /\ \E c \in Grid : writers[1][c] = {0} /\ 0 < W(1, c)
    /\ \E c \in Grid : writers[0][c] = {1} /\ 0 < W(0, c)
====
